---------------------------- MODULE Spec2Model ----------------------------
(***************************************************************************)
(* A state-machine model of msvcfilt (src/msvcfilt.cpp): the argument      *)
(* loop, the two-mode line source, the regex scan of a line, the DbgHelp   *)
(* singleton and the text written to standard output.                      *)
(*                                                                         *)
(* Text is a sequence of one-character strings.  Positions in a line are   *)
(* the 1-based counterparts of the C++ iterators: begin() is 1 and end()   *)
(* is Len(line) + 1.                                                       *)
(***************************************************************************)
EXTENDS Integers, Sequences, FiniteSets, TLC

\* ------------------------------------------------------------------ bounds

\* Longest argument vector (argv[1..argc-1]) the model starts with.
MaxArgs == 3

\* Longest standard-input stream, in characters, the model starts with.
MaxStdinLen == 5

\* ------------------------------------------------------------- characters

NUL == "NUL"
NL == "NL"
QUOTE == "\""

\* Representatives of the character class [a-zA-Z0-9_@?$] of the pattern.
SymbolClass == {"a", "Z", "0", "_", "@", "?", "$"}

\* Characters a standard-input stream of the model is made of.
StdinChars == {"?", "a", " ", NUL, NL}

\* The option spellings processArgs compares against.
HelpArg1 == <<"-", "h", "e", "l", "p">>
HelpArg2 == <<"-", "-", "h", "e", "l", "p">>
KeepArg1 == <<"-", "k", "e", "e", "p">>
KeepArg2 == <<"-", "-", "k", "e", "e", "p">>

\* Literal strings the model passes on the command line (no NUL: argv
\* strings are C strings).
ArgLiterals ==
    { <<>>, <<"a">>, <<"?", "a">>, <<" ", "?", "?", " ">> }

ArgPool == {HelpArg1, HelpArg2, KeepArg1, KeepArg2} \cup ArgLiterals

\* Names the symbol service can write into the buffer on success.
UndecoratedNames == { <<"v">>, <<"v", " ", "f">> }

\* The null HANDLE, and the pseudo handle GetCurrentProcess returns.
NULLH == "nullptr"
CurrentProcess == "GetCurrentProcess"

\* ---------------------------------------------------------------- helpers

RECURSIVE SeqsUpTo(_, _)
SeqsUpTo(S, n) ==
    IF n = 0 THEN { <<>> }
    ELSE LET shorter == SeqsUpTo(S, n - 1)
         IN  shorter \cup { Append(s, c) : s \in { t \in shorter : Len(t) = n - 1 }, c \in S }

IsOption(a) == a \in {HelpArg1, HelpArg2, KeepArg1, KeepArg2}
IsHelp(a) == a \in {HelpArg1, HelpArg2}
IsKeep(a) == a \in {KeepArg1, KeepArg2}

\* Text from position p (inclusive) to position q (exclusive).
Slice(s, p, q) == SubSeq(s, p, q - 1)

\* What operator<<(const char *) writes for a pointer to position p of the
\* line's buffer: the characters up to the first NUL.
RECURSIVE CStringAt(_, _)
CStringAt(s, p) ==
    IF p > Len(s) \/ s[p] = NUL THEN <<>>
    ELSE <<s[p]>> \o CStringAt(s, p + 1)

\* std::getline on a stream s read up to position p: the position of the
\* last character extracted, which the delimiter or the end of s follows.
RECURSIVE LineEnd(_, _)
LineEnd(s, p) ==
    IF p > Len(s) \/ s[p] = NL THEN p - 1
    ELSE LineEnd(s, p + 1)

\* ------------------------------------------------------------ regex search

\* One past the end of the greedy run [a-zA-Z0-9_@?$]+ that starts at p.
RECURSIVE RunEnd(_, _)
RunEnd(s, p) ==
    IF p <= Len(s) /\ s[p] \in SymbolClass THEN RunEnd(s, p + 1) ELSE p

\* Whether \?[a-zA-Z0-9_@?$]+ matches at position p.
MatchesAt(s, p) ==
    /\ p + 1 <= Len(s)
    /\ s[p] = "?"
    /\ s[p + 1] \in SymbolClass

\* The default-constructed (end) std::sregex_token_iterator.
EndIterator == [valid |-> FALSE, first |-> 0, second |-> 0]

\* The token iterator after a regex_search from position p: on the leftmost
\* match at or after p, or the end iterator.
RECURSIVE Search(_, _)
Search(s, p) ==
    IF p > Len(s) THEN EndIterator
    ELSE IF MatchesAt(s, p)
         THEN [valid |-> TRUE, first |-> p, second |-> RunEnd(s, p + 1)]
         ELSE Search(s, p + 1)

\* --------------------------------------------------------------- optionals

\* std::optional: an empty one, and one holding v.
Nothing == [has |-> FALSE, val |-> <<>>]
Some(v) == [has |-> TRUE, val |-> v]

\* ------------------------------------------------------------------- state

VARIABLES
    pc,              \* where main is: "args", "loop", "scan", "done", "exited"
    argv,            \* argv[1..argc-1]
    idx,             \* processArgs' loop index
    gKeepOldName,    \* the -keep flag
    gInputStrings,   \* std::optional< std::list< std::string > >
    stdin,           \* the characters standard input holds in all
    cin,             \* std::cin: [pos: next character of stdin to extract,
                     \*            good: no state bit is set]
    line,            \* main's std::optional< std::string > line
    it,              \* the regex token iterator over line
    prevPos,         \* end of the previous match in line
    cout,            \* every character written to standard output
    instance,        \* the function-local static SymbolHandler
    dbghelp,         \* calls made to DbgHelp: [init, undecorate, cleanup]
    cinReads,        \* history: std::getline calls made on std::cin
    hist             \* history: per line read, its text, where its output starts
                     \* and stops in cout, and one mark per match handled

vars == << pc, argv, idx, gKeepOldName, gInputStrings, stdin, cin, line, it, prevPos,
           cout, instance, dbghelp, cinReads, hist >>

argc == Len(argv) + 1

\* Streams offered while the command line is varied.
SmallStreams == { <<>>, <<"a", NL>>, <<"?", "a">> }

\* Command lines offered while the stream is varied.
SmallArgvs == { <<>>, <<KeepArg1>> }

Init ==
    /\ \/ /\ argv \in SeqsUpTo(ArgPool, MaxArgs)
          /\ stdin \in SmallStreams
       \/ /\ argv \in SmallArgvs
          /\ stdin \in SeqsUpTo(StdinChars, MaxStdinLen)
    /\ cin = [pos |-> 1, good |-> TRUE]
    /\ pc = "args"
    /\ idx = 1
    /\ gKeepOldName = FALSE
    /\ gInputStrings = Nothing
    /\ line = Nothing
    /\ it = EndIterator
    /\ prevPos = 1
    /\ cout = <<>>
    /\ instance = [constructed |-> FALSE, fProc |-> NULLH]
    /\ dbghelp = [init |-> 0, undecorate |-> 0, cleanup |-> 0]
    /\ cinReads = 0
    /\ hist = <<>>

\* ------------------------------------------------------------- processArgs

\* "-help" or "--help": showHelp(), processArgs returns false, main returns 0.
ArgHelp ==
    /\ pc = "args"
    /\ idx < argc
    /\ IsHelp(argv[idx])
    /\ pc' = "done"
    /\ UNCHANGED << stdin, argv, idx, gKeepOldName, gInputStrings, cin, line, it, prevPos,
                    cout, instance, dbghelp, cinReads, hist >>

\* "-keep" or "--keep".
ArgKeep ==
    /\ pc = "args"
    /\ idx < argc
    /\ ~IsHelp(argv[idx])
    /\ IsKeep(argv[idx])
    /\ gKeepOldName' = TRUE
    /\ idx' = idx + 1
    /\ UNCHANGED << stdin, pc, argv, gInputStrings, cin, line, it, prevPos,
                    cout, instance, dbghelp, cinReads, hist >>

\* Any other argument is appended to gInputStrings, created on first need.
ArgLiteral ==
    /\ pc = "args"
    /\ idx < argc
    /\ ~IsHelp(argv[idx])
    /\ ~IsKeep(argv[idx])
    /\ gInputStrings' = Some(Append(gInputStrings.val, argv[idx]))
    /\ idx' = idx + 1
    /\ UNCHANGED << stdin, pc, argv, gKeepOldName, cin, line, it, prevPos,
                    cout, instance, dbghelp, cinReads, hist >>

\* The loop ends, processArgs returns true and main goes on to its loop.
ArgsDone ==
    /\ pc = "args"
    /\ idx >= argc
    /\ pc' = "loop"
    /\ UNCHANGED << stdin, argv, idx, gKeepOldName, gInputStrings, cin, line, it, prevPos,
                    cout, instance, dbghelp, cinReads, hist >>

\* ------------------------------------------------------------- getNextLine

\* A getNextLine that falls back to std::cin once the list is empty.
ReadsStdinOnceListIsEmpty == ~gInputStrings.has \/ gInputStrings.val = <<>>

\* Whether lines come from std::cin.
ReadsStdin == ~gInputStrings.has

inputValid ==
    IF ReadsStdin THEN cin.good ELSE gInputStrings.val # <<>>

\* A getNextLine that takes back() instead of front().
Back(list) == list[Len(list)]

\* A getNextLine that forgets pop_front().
NoPop(list) == list

\* The element getNextLine takes from the list.
Front(list) == Head(list)

\* The list after getNextLine took its element.
PopFront(list) == Tail(list)

\* What main does with a line it got: the iterator on the first match,
\* prevPos at begin().
StartLine(text) ==
    /\ line' = Some(text)
    /\ it' = Search(text, 1)
    /\ prevPos' = 1
    /\ hist' = Append(hist, [text |-> text, start |-> Len(cout), stop |-> -1, marks |-> <<>>])
    /\ pc' = "scan"

\* getNextLine in list mode, the list not empty.
NextLineQueue ==
    /\ pc = "loop"
    /\ inputValid
    /\ ~ReadsStdin
    /\ gInputStrings' = Some(PopFront(gInputStrings.val))
    /\ StartLine(Front(gInputStrings.val))
    /\ UNCHANGED << stdin, argv, idx, gKeepOldName, cin, cout, instance, dbghelp, cinReads >>

\* getNextLine in stream mode, std::cin.good(): std::getline extracts up to
\* the delimiter, which it discards; reaching the end of the stream sets
\* eofbit, and failbit too when nothing was extracted.  The line is returned
\* whatever the state of the stream is afterwards.
NextLineStdin ==
    /\ pc = "loop"
    /\ inputValid
    /\ ReadsStdin
    /\ LET last == LineEnd(stdin, cin.pos)
           delimited == last < Len(stdin)
       IN  /\ cin' = [pos  |-> IF delimited THEN last + 2 ELSE Len(stdin) + 1,
                      good |-> delimited]
           /\ StartLine(SubSeq(stdin, cin.pos, last))
    /\ cinReads' = cinReads + 1
    /\ UNCHANGED << stdin, argv, idx, gKeepOldName, gInputStrings, cout, instance, dbghelp >>

\* getNextLine returns nothing: the while loop ends and main returns.
InputExhausted ==
    /\ pc = "loop"
    /\ ~inputValid
    /\ line' = Nothing
    /\ pc' = "done"
    /\ UNCHANGED << stdin, argv, idx, gKeepOldName, gInputStrings, cin, it, prevPos,
                    cout, instance, dbghelp, cinReads, hist >>

\* ----------------------------------------------------------- SymbolHandler

\* SymbolHandler::SymbolHandler with SymInitialize returning ok.
Constructed(ok) ==
    [constructed |-> TRUE, fProc |-> IF ok THEN CurrentProcess ELSE NULLH]

\* SymbolHandler::GetInstance: the static is constructed by the first call
\* and only by it.
GetInstance(ok) ==
    IF instance.constructed THEN instance ELSE Constructed(ok)

\* Whether this GetInstance call runs the constructor (and SymInitialize).
RunsConstructor == ~instance.constructed

\* SymbolHandler::UndecorateSymbol on handler h, UnDecorateSymbolName
\* returning res (0) or writing name: the call is made whatever h.fProc is.
UndecorateSymbol(h, res, name) ==
    IF res # 0 THEN Some(name) ELSE Nothing

\* A destructor that calls SymCleanup without looking at fProc.
CleanupUnchecked == instance.constructed

\* Whether ~SymbolHandler calls SymCleanup.
CallsSymCleanup == instance.constructed /\ instance.fProc # NULLH

\* ------------------------------------------------------- main's line loop

\* A loop body that writes the annotation without the matched text.
EmittedWithoutOriginal(matched, result) ==
    IF ~result.has THEN <<>>
    ELSE IF gKeepOldName THEN <<" ", QUOTE>> \o result.val \o <<QUOTE>>
    ELSE result.val

\* What the loop body writes for a match after the gap before it.
Emitted(matched, result) ==
    IF ~result.has THEN <<>>
    ELSE IF gKeepOldName THEN matched \o <<" ", QUOTE>> \o result.val \o <<QUOTE>>
    ELSE result.val

\* What main writes after the last match: nothing when prevPos is end(),
\* else the C string at prevPos.
Remainder(text, p) ==
    IF p # Len(text) + 1 THEN CStringAt(text, p) ELSE <<>>

\* hist with one more mark on its last line.
Marked(mark) ==
    [hist EXCEPT ![Len(hist)].marks = Append(@, mark)]

\* One pass of the for loop: write the gap, resolve the match, write the
\* replacement if there is one, advance the iterator.
Match ==
    /\ pc = "scan"
    /\ it.valid
    /\ \E ok \in BOOLEAN, res \in {0, 1}, name \in UndecoratedNames :
         LET startPos == it.first
             endPos   == it.second
             gap      == Slice(line.val, prevPos, startPos)
             symbol   == Slice(line.val, startPos, endPos)
             handler  == GetInstance(ok)
             result   == UndecorateSymbol(handler, res, name)
             written  == Emitted(symbol, result)
         IN  /\ instance' = handler
             /\ dbghelp' = [dbghelp EXCEPT
                              !.init = @ + (IF RunsConstructor THEN 1 ELSE 0),
                              !.undecorate = @ + 1]
             /\ cout' = cout \o gap \o written
             /\ prevPos' = endPos
             /\ it' = Search(line.val, endPos)
             /\ hist' = Marked([first  |-> startPos,
                                second |-> endPos,
                                result |-> result,
                                from   |-> Len(cout) + Len(gap),
                                to     |-> Len(cout) + Len(gap) + Len(written)])
    /\ UNCHANGED << stdin, pc, argv, idx, gKeepOldName, gInputStrings, cin, line, cinReads >>

\* After the last match: the remainder of the line, then std::endl.
FinishLine ==
    /\ pc = "scan"
    /\ ~it.valid
    /\ LET rest == Remainder(line.val, prevPos)
       IN  /\ cout' = cout \o rest \o <<NL>>
           /\ hist' = [hist EXCEPT ![Len(hist)].stop = Len(cout) + Len(rest)]
    /\ pc' = "loop"
    /\ UNCHANGED << stdin, argv, idx, gKeepOldName, gInputStrings, cin, line, it, prevPos,
                    instance, dbghelp, cinReads >>

\* main has returned: the static SymbolHandler, if constructed, is destroyed.
Exit ==
    /\ pc = "done"
    /\ pc' = "exited"
    /\ dbghelp' = [dbghelp EXCEPT !.cleanup = @ + (IF CallsSymCleanup THEN 1 ELSE 0)]
    /\ UNCHANGED << stdin, argv, idx, gKeepOldName, gInputStrings, cin, line, it, prevPos,
                    cout, instance, cinReads, hist >>

Next ==
    \/ ArgHelp
    \/ ArgKeep
    \/ ArgLiteral
    \/ ArgsDone
    \/ NextLineQueue
    \/ NextLineStdin
    \/ InputExhausted
    \/ Match
    \/ FinishLine
    \/ Exit

Spec == Init /\ [][Next]_vars

\* The program is one thread that runs until it blocks or ends: every step
\* that can be taken is taken.
FairSpec == Spec /\ WF_vars(Next)

\* ------------------------------------------------- vocabulary of the claims

\* The literal strings of a command line: its arguments that are no option,
\* in the order given.
RECURSIVE Literals(_)
Literals(args) ==
    IF args = <<>> THEN <<>>
    ELSE IF IsOption(Head(args)) THEN Literals(Tail(args))
    ELSE <<Head(args)>> \o Literals(Tail(args))

\* The arguments processArgs has gone through.
ArgsSeen == SubSeq(argv, 1, idx - 1)

\* main got past processArgs (no help was asked for).
CoreRan == pc \in {"loop", "scan"} \/ (pc \in {"done", "exited"} /\ idx = argc)

\* The candidate spans of a text, stated without a search: a candidate starts
\* at a '?' that a class character follows and that no earlier candidate
\* covers, and ends where the run of class characters ends.
Covered(s, p) ==
    \E q \in 1..(p - 1) : s[q] = "?" /\ \A j \in (q + 1)..p : s[j] \in SymbolClass

CandidateStarts(s) ==
    { p \in 1..Len(s) : /\ s[p] = "?"
                        /\ p < Len(s)
                        /\ s[p + 1] \in SymbolClass
                        /\ ~Covered(s, p) }

CandidateEnd(s, p) ==
    CHOOSE e \in (p + 2)..(Len(s) + 1) :
        /\ \A j \in (p + 1)..(e - 1) : s[j] \in SymbolClass
        /\ e = Len(s) + 1 \/ s[e] \notin SymbolClass

\* The number of lines a stream holds: one per terminator, and one more for
\* text after the last terminator.
RECURSIVE CountNL(_)
CountNL(s) ==
    IF s = <<>> THEN 0
    ELSE (IF Head(s) = NL THEN 1 ELSE 0) + CountNL(Tail(s))

StreamLineCount(s) ==
    CountNL(s) + (IF s # <<>> /\ s[Len(s)] # NL THEN 1 ELSE 0)

\* The lines the run is given, from whichever source is in use.
InputLineCount ==
    IF Literals(argv) # <<>> THEN Len(Literals(argv)) ELSE StreamLineCount(stdin)

\* Line k of the history is finished: its terminator is written.
Finished(k) == hist[k].stop # -1

\* What has been written for line k, terminator excluded.
OutputOf(k) ==
    SubSeq(cout, hist[k].start + 1, IF Finished(k) THEN hist[k].stop ELSE Len(cout))

\* What was written for a match, and the text that matched.
WrittenFor(m) == SubSeq(cout, m.from + 1, m.to)
MatchedText(k, m) == Slice(hist[k].text, m.first, m.second)

\* Every match handled so far, as <<line number, mark number>>.
AllMarks == UNION { { <<k, i>> : i \in 1..Len(hist[k].marks) } : k \in 1..Len(hist) }
MarkAt(km) == hist[km[1]].marks[km[2]]

\* The text the policy gives a resolved candidate.
PolicyText(matched, name) ==
    IF gKeepOldName THEN matched \o <<" ">> \o <<QUOTE>> \o name \o <<QUOTE>>
    ELSE name

\* The end of the match before mark i of line k (begin() for the first), and
\* where the output for it stopped (the start of the line's output).
PrevEnd(k, i) == IF i = 1 THEN 1 ELSE hist[k].marks[i - 1].second
PrevTo(k, i) == IF i = 1 THEN hist[k].start ELSE hist[k].marks[i - 1].to

\* The marks of line k are the candidates of its text, in order.
MarksAreCandidates(k) ==
    LET ms == hist[k].marks
        t  == hist[k].text
    IN  /\ { ms[i].first : i \in 1..Len(ms) } = CandidateStarts(t)
        /\ \A i \in 1..Len(ms) : /\ ms[i].second = CandidateEnd(t, ms[i].first)
                                 /\ PrevEnd(k, i) <= ms[i].first

\* The output of finished line k is, in order: per match the gap before it
\* and what was written for it, then the text after the last match.
Reconstructs(k) ==
    LET ms == hist[k].marks
        t  == hist[k].text
        n  == Len(ms)
    IN  /\ MarksAreCandidates(k)
        /\ \A i \in 1..n :
             /\ PrevTo(k, i) <= ms[i].from /\ ms[i].from <= ms[i].to
             /\ SubSeq(cout, PrevTo(k, i) + 1, ms[i].from)
                    = Slice(t, PrevEnd(k, i), ms[i].first)
        /\ SubSeq(cout, PrevTo(k, n + 1) + 1, hist[k].stop)
               = Slice(t, PrevEnd(k, n + 1), Len(t) + 1)
        /\ cout[hist[k].stop + 1] = NL

\* A text with no substring the candidate pattern matches.
NoCandidate(t) ==
    ~\E p \in 1..(Len(t) - 1) : t[p] = "?" /\ t[p + 1] \in SymbolClass

\* What the rewriter makes of a text whose candidates resolved to results
\* (one per candidate, in order), from candidate number i on.
RECURSIVE RewrittenFrom(_, _, _, _)
RewrittenFrom(t, results, i, p) ==
    LET later == { q \in CandidateStarts(t) : q >= p }
    IN  IF later = {} \/ i > Len(results) THEN CStringAt(t, p)
        ELSE LET q == CHOOSE x \in later : \A y \in later : x <= y
                 e == CandidateEnd(t, q)
             IN  Slice(t, p, q)
                   \o (IF results[i].has THEN PolicyText(Slice(t, q, e), results[i].val) ELSE <<>>)
                   \o RewrittenFrom(t, results, i + 1, e)

Rewritten(k) ==
    RewrittenFrom(hist[k].text,
                  [i \in 1..Len(hist[k].marks) |-> hist[k].marks[i].result], 1, 1)

\* ------------------------------------------------------------------ claims

\* C1: a candidate the resolver fails on is written as its original matched
\* text, under either value of gKeepOldName; so a finished line all of whose
\* candidates failed is written byte for byte.
C1_UnresolvedIsPassedThrough ==
    /\ \A km \in AllMarks :
         LET m == MarkAt(km)
         IN  ~m.result.has => WrittenFor(m) = MatchedText(km[1], m)
    /\ \A k \in 1..Len(hist) :
         (Finished(k) /\ \A i \in 1..Len(hist[k].marks) : ~hist[k].marks[i].result.has)
            => OutputOf(k) = hist[k].text

\* C2: once SymInitialize has failed in the constructor, no resolve call
\* consults the service, every one reports "unresolved", and initialization
\* is not tried again.
C2_FailedInitDisablesResolver ==
    (instance.constructed /\ instance.fProc = NULLH)
        => /\ dbghelp.undecorate = 0
           /\ dbghelp.init = 1
           /\ \A km \in AllMarks : ~MarkAt(km).result.has

\* C3: when the run is over, exactly one terminator has been written per
\* input line, from either source; an exhausted stream gives no further line.
C3_OneTerminatorPerInputLine ==
    (pc = "exited" /\ CoreRan) => CountNL(cout) = InputLineCount

\* C4: the input mode is fixed by processArgs: the list exists exactly when a
\* literal string was given; with the list, std::cin is never read, not even
\* once the list is empty; without it, every line comes from std::cin.
C4_ModeIsFixed ==
    /\ gInputStrings.has <=> (Literals(ArgsSeen) # <<>>)
    /\ CoreRan => ArgsSeen = argv
    /\ gInputStrings.has => cinReads = 0 /\ cin = [pos |-> 1, good |-> TRUE]
    /\ ~gInputStrings.has => /\ gInputStrings.val = <<>>
                             /\ cinReads = Len(hist)

\* C4's case: the list was used up while standard input had data.
C4_Witness ==
    /\ pc = "exited"
    /\ Len(Literals(argv)) >= 2
    /\ Len(hist) = Len(Literals(argv))
    /\ gInputStrings.val = <<>>
    /\ stdin # <<>>

\* C5: what is written for a candidate that resolved depends on gKeepOldName
\* alone: the resolved name, or the matched text, a space and the resolved
\* name in double quotes.
C5_ResolvedFollowsPolicy ==
    \A km \in AllMarks :
        LET m == MarkAt(km)
        IN  m.result.has =>
              /\ MarksAreCandidates(km[1]) \/ ~Finished(km[1])
              /\ WrittenFor(m) =
                   IF gKeepOldName
                   THEN MatchedText(km[1], m) \o <<" ", QUOTE>> \o m.result.val \o <<QUOTE>>
                   ELSE m.result.val

\* C5's case: a line with two candidates, the second resolved, under -keep.
C5_Witness ==
    /\ gKeepOldName
    /\ \E k \in 1..Len(hist) :
         /\ Finished(k)
         /\ Len(hist[k].marks) = 2
         /\ hist[k].marks[2].result.has

\* C6: the output of a line is the gaps, the per-match outputs and the
\* trailing text in order: every character outside a matched span is written
\* once, verbatim, and nothing else is written outside the per-match outputs.
C6_Reconstruction ==
    \A k \in 1..Len(hist) : Finished(k) => Reconstructs(k)

\* C7: a line with no candidate is written as it is, plus one terminator,
\* under either policy, and the resolver is not called for it.
C7_PassThrough ==
    \A k \in 1..Len(hist) :
        (Finished(k) /\ NoCandidate(hist[k].text))
            => /\ OutputOf(k) = hist[k].text
               /\ cout[hist[k].stop + 1] = NL
               /\ hist[k].marks = <<>>

\* C8: the handler is initialized at most once, by the first resolve request
\* and not before; it is never initialized again; every resolve call comes
\* after the initialization and before the teardown; SymCleanup is called
\* once, at process end, exactly when the initialization succeeded.
C8_LifecycleState ==
    /\ dbghelp.init = (IF instance.constructed THEN 1 ELSE 0)
    /\ (dbghelp.init = 1) <=> (dbghelp.undecorate >= 1)
    /\ dbghelp.undecorate = Cardinality(AllMarks)
    /\ dbghelp.cleanup = (IF pc = "exited" /\ instance.fProc # NULLH THEN 1 ELSE 0)
    /\ instance.fProc # NULLH => instance.constructed

C8_LifecycleStep ==
    /\ dbghelp'.init >= dbghelp.init
    /\ dbghelp'.init # dbghelp.init
         => dbghelp.undecorate = 0 /\ dbghelp'.undecorate = 1
    /\ dbghelp'.undecorate # dbghelp.undecorate
         => dbghelp'.init = 1 /\ dbghelp.cleanup = 0 /\ dbghelp'.cleanup = 0
    /\ instance.constructed => instance' = instance

C8_Lifecycle == []C8_LifecycleState /\ [][C8_LifecycleStep]_vars

\* C8's case: a run is over in which the first of several resolve calls
\* initialized the handler with success, and the teardown was done once.
C8_Witness ==
    /\ pc = "exited"
    /\ dbghelp.undecorate >= 2
    /\ dbghelp.init = 1
    /\ instance.fProc = CurrentProcess
    /\ dbghelp.cleanup = 1

\* C9: in list mode the literal strings are taken front to back, one per
\* getNextLine call, and output line k is the rewriting of literal string k
\* (options are no literal strings).
C9_QueueOrder ==
    (gInputStrings.has /\ CoreRan) =>
        LET lits == Literals(argv)
        IN  /\ Len(hist) <= Len(lits)
            /\ gInputStrings.val = SubSeq(lits, Len(hist) + 1, Len(lits))
            /\ \A k \in 1..Len(hist) :
                 /\ hist[k].text = lits[k]
                 /\ hist[k].start = (IF k = 1 THEN 0 ELSE hist[k - 1].stop + 1)
                 /\ Finished(k) => /\ OutputOf(k) = Rewritten(k)
                                   /\ cout[hist[k].stop + 1] = NL

\* C9's case: two different literal strings with an option between them, a
\* third after them, all written.
C9_Witness ==
    /\ pc = "exited"
    /\ Len(argv) = 3
    /\ ~IsOption(argv[1]) /\ IsKeep(argv[2]) /\ ~IsOption(argv[3])
    /\ argv[1] # argv[3]
    /\ Len(hist) = 2
    /\ CountNL(cout) = 2

\* C10: the run ends once the input is used up: in list mode with n literal
\* strings the list shrinks by one per line got, the call after the n-th
\* returns nothing, the loop ends with the list empty, and the process ends
\* normally.
C10_Exhaustion ==
    /\ (gInputStrings.has /\ CoreRan) =>
          /\ Len(gInputStrings.val) = Len(Literals(argv)) - Len(hist)
          /\ pc \in {"done", "exited"} =>
                /\ gInputStrings.val = <<>>
                /\ Len(hist) = Len(Literals(argv))
                /\ ~line.has
    /\ (~gInputStrings.has /\ CoreRan /\ pc \in {"done", "exited"}) =>
          /\ ~cin.good
          /\ ~line.has

C10_Terminates == []C10_Exhaustion /\ <>(pc = "exited")

\* C10's case: a run over three literal strings has ended.
C10_Witness ==
    /\ pc = "exited"
    /\ gInputStrings.has
    /\ Len(hist) = 3
    /\ gInputStrings.val = <<>>

=============================================================================
